---- MODULE Spec2Model ----
(***************************************************************************)
(* The daily-brief pipeline of rss-ai-analyst: trigger authorization, feed *)
(* fetching with window / cap / dedup / keyword filtering, batched judging *)
(* of the articles, ranking, rendering and the mail step.                  *)
(*                                                                         *)
(* The repository holds three copies of the pipeline:                      *)
(*   "dedup"   src/app/api/cron/daily-brief/route.ts lines 1-347           *)
(*             (seenLinks dedup, fire-and-forget POST)                     *)
(*   "keyword" src/app/api/cron/daily-brief/route.ts lines 348-679         *)
(*             (keyword pre-filter, awaited GET)                           *)
(*   "plain"   src/unnamed/part_000 (neither filter, awaited GET)          *)
(* The variable variant says which copy a behaviour runs.                  *)
(***************************************************************************)
EXTENDS Integers, Sequences, FiniteSets, TLC

VARIABLES
    variant,      \* which copy of the pipeline runs
    secret,       \* process.env.CRON_SECRET: <<>> when unset, <<s>> when set
    authHeader,   \* request.headers.get('authorization'): <<>> is null
    response,     \* what the handler returned to the caller ("none" = pending)
    counts,       \* the counts of the returned JSON body (<<>> = it holds none)
    outcome,      \* how the run ended ("none" = not ended)
    pc,           \* position of the run
    clock,        \* the wall clock, in ms
    cutoffDate,   \* fetchRecentArticles: cutoffDate
    feedIdx,      \* fetchRecentArticles: number of feeds already iterated
    feedResults,  \* what parser.parseURL gave for each feed iterated so far
    contrib,      \* recentItems of each feed iterated so far (<<>> on a throw)
    seenLinks,    \* fetchRecentArticles: seenLinks ("dedup" copy)
    allArticles,  \* fetchRecentArticles: allArticles
    i,            \* analyzeWithClaude: loop index
    requests,     \* the judge requests issued so far: batch, issue and completion time
    judgeLog,     \* what anthropic.messages.create gave for each batch so far
    batchOut,     \* what each batch pushed onto analyzed
    analyzed,     \* analyzeWithClaude: analyzed (before the sort)
    digest,       \* the list analyzeWithClaude returned
    delays,       \* number of inter-batch setTimeout pauses taken
    emailHtml,    \* formatEmailBrief's document, as its sections
    mailSends     \* number of resend.emails.send calls

vars == <<variant, secret, authHeader, response, counts, outcome, pc, clock,
          cutoffDate, feedIdx, feedResults, contrib, seenLinks, allArticles, i,
          requests, judgeLog, batchOut, analyzed, digest, delays, emailHtml,
          mailSends>>

-----------------------------------------------------------------------------
(* Bounds of the model *)

\* the most entries of RSS_FEEDS that a run iterates
MaxFeeds == 3

\* Date.now() when the run starts, in ms
StartTime == 1000000000

-----------------------------------------------------------------------------
(* Configuration *)

Variants == {"dedup", "keyword", "plain"}

CONFIG(v) ==
    CASE v = "dedup"   -> [maxArticlesPerFeed |-> 3, hoursLookback |-> 48,
                           minRelevanceScore |-> 5, maxArticlesInBrief |-> 15]
      [] v = "keyword" -> [maxArticlesPerFeed |-> 5, hoursLookback |-> 168,
                           minRelevanceScore |-> 6, maxArticlesInBrief |-> 15]
      [] v = "plain"   -> [maxArticlesPerFeed |-> 5, hoursLookback |-> 24,
                           minRelevanceScore |-> 7, maxArticlesInBrief |-> 15]

\* RSS_FEEDS.length
FeedCount(v) ==
    CASE v = "dedup" -> 24 [] v = "keyword" -> 8 [] v = "plain" -> 3

batchSize == 5

\* setTimeout(resolve, 1000)
delayMs == 1000

-----------------------------------------------------------------------------
(* Strings that the code inspects are sequences of one-character strings *)

Min(a, b) == IF a < b THEN a ELSE b

\* the feeds of RSS_FEEDS that the model iterates: the first MaxFeeds of them
NumFeeds(v) == Min(FeedCount(v), MaxFeeds)

\* Array.prototype.slice(0, n)
Slice(s, n) == SubSeq(s, 1, Min(n, Len(s)))

RECURSIVE Flatten(_)
Flatten(ss) == IF ss = <<>> THEN <<>> ELSE Head(ss) \o Flatten(Tail(ss))

LowerChar(c) ==
    CASE c = "A" -> "a" [] c = "I" -> "i" [] c = "S" -> "s" [] c = "M" -> "m"
      [] c = "E" -> "e" [] c = "K" -> "k" [] c = "B" -> "b" [] c = "C" -> "c"
      [] c = "T" -> "t" [] OTHER -> c

\* String.prototype.toLowerCase
toLowerCase(s) == [k \in 1..Len(s) |-> LowerChar(s[k])]

\* String.prototype.includes
includes(text, word) ==
    \E k \in 0..(Len(text) - Len(word)) : SubSeq(text, k + 1, k + Len(word)) = word

\* three of the entries of KEYWORDS: 'ai act', 'sme', 'mkb'
KEYWORDS == << <<"a", "i", " ", "a", "c", "t">>, <<"s", "m", "e">>, <<"m", "k", "b">> >>

\* the text is searched as it stands, without lower-casing it
passesKeywordFilterCaseSensitive(article) ==
    LET text == article.title \o <<" ">> \o article.content
    IN  \E k \in 1..Len(KEYWORDS) : includes(text, KEYWORDS[k])

\* `${article.title} ${article.content}`.toLowerCase(), then KEYWORDS.some(includes)
passesKeywordFilter(article) ==
    LET text == toLowerCase(article.title \o <<" ">> \o article.content)
    IN  \E k \in 1..Len(KEYWORDS) : includes(text, KEYWORDS[k])

-----------------------------------------------------------------------------
(* Feed items and Articles *)

Untitled == <<"U", "n", "t", "i", "t", "l", "e", "d">>

\* a raw item of a parsed feed; <<>> and "" stand for a field the feed omits
RawItem(title, link, pubDate, content, contentSnippet, summary) ==
    [title |-> title, link |-> link, pubDate |-> pubDate, content |-> content,
     contentSnippet |-> contentSnippet, summary |-> summary]

\* item.pubDate ? new Date(item.pubDate) : new Date()
PubDateOf(item, now) == IF item.pubDate # <<>> THEN item.pubDate[1] ELSE now

\* Date.now() - CONFIG.hoursLookback * 60 * 60 * 1000
CutoffOf(v, now) == now - CONFIG(v).hoursLookback * 60 * 60 * 1000

IsRecentInclusive(item, now, cutoff) == PubDateOf(item, now) >= cutoff

\* the first .filter of fetchRecentArticles: pubDate > cutoffDate
IsRecent(item, now, cutoff) == PubDateOf(item, now) > cutoff

\* the .map of fetchRecentArticles
Normalize(item, now) ==
    [title   |-> IF item.title # <<>> THEN item.title ELSE Untitled,
     link    |-> item.link,
     pubDate |-> PubDateOf(item, now),
     content |-> IF item.content # <<>> THEN item.content
                 ELSE IF item.contentSnippet # <<>> THEN item.contentSnippet
                 ELSE item.summary]

\* the cap taken from the parsed feed first, the window filter after it
CapWindowMap(v, items, now, cutoff) ==
    LET capped == Slice(items, CONFIG(v).maxArticlesPerFeed)
        recent == SelectSeq(capped, LAMBDA it : IsRecent(it, now, cutoff))
    IN  [k \in 1..Len(recent) |-> Normalize(recent[k], now)]

\* feed.items.filter(window).slice(0, maxArticlesPerFeed).map(normalize)
WindowCapMap(v, items, now, cutoff) ==
    LET recent == SelectSeq(items, LAMBDA it : IsRecent(it, now, cutoff))
        capped == Slice(recent, CONFIG(v).maxArticlesPerFeed)
    IN  [k \in 1..Len(capped) |-> Normalize(capped[k], now)]

DedupPerFeedOnly(items, seen) ==
    [kept |-> SelectSeq(items, LAMBDA a : a.link \notin seen),
     seen |-> seen \cup {items[k].link : k \in 1..Len(items)}]

\* the last .filter of the "dedup" copy: seenLinks.has / seenLinks.add, item by item
RECURSIVE DedupFilter(_, _)
DedupFilter(items, seen) ==
    IF items = <<>> THEN [kept |-> <<>>, seen |-> seen]
    ELSE LET h == Head(items)
         IN  IF h.link \in seen
             THEN DedupFilter(Tail(items), seen)
             ELSE LET r == DedupFilter(Tail(items), seen \cup {h.link})
                  IN  [kept |-> <<h>> \o r.kept, seen |-> r.seen]

\* recentItems of one feed, with the seenLinks it leaves behind
RecentItems(v, items, now, cutoff, seen) ==
    LET mapped == WindowCapMap(v, items, now, cutoff)
    IN  CASE v = "dedup"   -> DedupFilter(mapped, seen)
          [] v = "keyword" -> [kept |-> SelectSeq(mapped, passesKeywordFilter),
                               seen |-> seen]
          [] v = "plain"   -> [kept |-> mapped, seen |-> seen]

-----------------------------------------------------------------------------
(* The feeds that parser.parseURL may return *)

KW == <<"S", "M", "E">>
Other == <<"x">>

Fresh(link, title, content, c)    == RawItem(title, link, <<c + 1>>, content, <<>>, <<>>)
AtCutoff(link, title, content, c) == RawItem(title, link, <<c>>, content, <<>>, <<>>)
Older(link, title, content, c)    == RawItem(title, link, <<c - 1>>, content, <<>>, <<>>)
Undated(link, title, snippet)     == RawItem(title, link, <<>>, <<>>, snippet, <<>>)

\* a dated fresh item, an item exactly at the cutoff, an undated link-less item
DocMix(c) ==
    << Fresh("a", KW, <<>>, c),
       AtCutoff("b", KW, <<>>, c),
       Undated("", <<"A", "I">>, <<"a", "c", "t">>) >>

\* an old item in front of six fresh ones: more fresh items than any per-feed cap
DocLong(c) ==
    << Older("o", KW, <<>>, c),
       Fresh("l1", KW, <<>>, c), Fresh("l2", KW, <<>>, c), Fresh("l3", KW, <<>>, c),
       Fresh("l4", KW, <<>>, c), Fresh("l5", KW, <<>>, c), Fresh("l6", KW, <<>>, c) >>

\* a link of DocLong again, and one link twice; no item matches a keyword
DocDup(c) ==
    << Fresh("l1", Other, Other, c),
       RawItem(<<"s">>, "d", <<c + 1>>, <<>>, <<>>, <<"m", "e">>),
       Fresh("d", Other, <<>>, c) >>

FeedDocs(c) == {DocMix(c), DocLong(c), DocDup(c)}

\* parser.parseURL threw (fetch failure, timeout or parse error)
FeedUnavailable == [ok |-> FALSE, items |-> <<>>]

FeedOutcomes(c) == {FeedUnavailable} \cup {[ok |-> TRUE, items |-> d] : d \in FeedDocs(c)}

-----------------------------------------------------------------------------
(* The judge's response text: a sequence of tokens.  A JSON object is one   *)
(* token (its own brackets lie inside it); "w" is a word of prose.          *)

NoObj == [score |-> 0, skip |-> FALSE, title |-> "", hasTags |-> FALSE, tags |-> <<>>,
          hasSummary |-> FALSE, opportunity |-> "", url |-> ""]

Tok(t) == [t |-> t, r |-> NoObj]
LB    == Tok("[")
RB    == Tok("]")
Comma == Tok(",")
Word  == Tok("w")
Null  == Tok("null")
Obj(r) == [t |-> "obj", r |-> r]

\* a complete AnalyzedArticle record as the prompt asks for it
Rec(score, title, tags, opportunity) ==
    [score |-> score, skip |-> FALSE, title |-> title, hasTags |-> TRUE, tags |-> tags,
     hasSummary |-> TRUE, opportunity |-> opportunity, url |-> title]

\* {"score": X, "skip": true}
SkipRec(score) == [NoObj EXCEPT !.score = score, !.skip = TRUE]

\* a record whose tags field is missing
Untagged(score, title) == [Rec(score, title, <<>>, "") EXCEPT !.hasTags = FALSE]

TkAt(s, k) == IF k >= 1 /\ k <= Len(s) THEN s[k].t ELSE "eof"

\* responseText.match(/\[[\s\S]*\]/): from the first "[" to the last "]"
RegexMatch(text) ==
    LET lbs == {k \in 1..Len(text) : text[k].t = "["}
        rbs == {k \in 1..Len(text) : text[k].t = "]"}
        p   == CHOOSE k \in lbs : \A m \in lbs : k <= m
        q   == CHOOSE k \in rbs : \A m \in rbs : k >= m
    IN  IF lbs # {} /\ rbs # {} /\ p < q
        THEN [found |-> TRUE, text |-> SubSeq(text, p, q)]
        ELSE [found |-> FALSE, text |-> <<>>]

ParseFail == [ok |-> FALSE, next |-> 0, val |-> Tok("error"), items |-> <<>>]

\* JSON.parse restricted to arrays, objects and null
RECURSIVE ParseValue(_, _)
RECURSIVE ParseElems(_, _, _)
ParseValue(s, k) ==
    CASE TkAt(s, k) \in {"obj", "null"} ->
            [ok |-> TRUE, next |-> k + 1, val |-> s[k], items |-> <<>>]
      [] TkAt(s, k) = "[" ->
            IF TkAt(s, k + 1) = "]"
            THEN [ok |-> TRUE, next |-> k + 2, val |-> Tok("arr"), items |-> <<>>]
            ELSE LET e == ParseElems(s, k + 1, <<>>)
                 IN  [ok |-> e.ok, next |-> e.next, val |-> Tok("arr"), items |-> e.items]
      [] OTHER -> ParseFail

ParseElems(s, k, acc) ==
    LET v == ParseValue(s, k)
    IN  IF ~v.ok THEN ParseFail
        ELSE CASE TkAt(s, v.next) = "," -> ParseElems(s, v.next + 1, Append(acc, v.val))
               [] TkAt(s, v.next) = "]" ->
                     [ok |-> TRUE, next |-> v.next + 1, val |-> Tok("arr"),
                      items |-> Append(acc, v.val)]
               [] OTHER -> ParseFail

\* JSON.parse(jsonMatch[0]): ok = FALSE is the SyntaxError
JSONparse(text) ==
    LET v == ParseValue(text, 1)
    IN  IF v.ok /\ v.next = Len(text) + 1
        THEN [ok |-> TRUE, items |-> v.items]
        ELSE [ok |-> FALSE, items |-> <<>>]

RelevantSkipOnly(v, r) == ~r.skip

\* !r.skip && r.score >= CONFIG.minRelevanceScore, r an object
Relevant(v, r) == ~r.skip /\ r.score >= CONFIG(v).minRelevanceScore

\* what anthropic.messages.create gives: a throw, or a text of prose around a body
Threw == [threw |-> TRUE, pre |-> <<>>, body |-> <<>>, post |-> <<>>]
Reply(pre, body, post) == [threw |-> FALSE, pre |-> pre, body |-> body, post |-> post]

\* message.content[0].text
ResponseText(out) == out.pre \o out.body \o out.post

\* results.filter(...): a null element makes r.skip throw; an element that is an
\* array has neither skip nor score, and undefined >= min is false
FilterResults(v, items) ==
    IF \E k \in 1..Len(items) : items[k].t = "null"
    THEN [threw |-> TRUE, relevant |-> <<>>]
    ELSE LET objs == SelectSeq(items, LAMBDA e : e.t = "obj" /\ Relevant(v, e.r))
         IN  [threw |-> FALSE, relevant |-> [k \in 1..Len(objs) |-> objs[k].r]]

\* the try block of one batch: what it pushes onto analyzed
BatchRelevant(v, out) ==
    IF out.threw THEN <<>>
    ELSE LET jsonMatch == RegexMatch(ResponseText(out))
         IN  IF ~jsonMatch.found THEN <<>>
             ELSE LET results == JSONparse(jsonMatch.text)
                  IN  IF ~results.ok THEN <<>>
                      ELSE FilterResults(v, results.items).relevant

-----------------------------------------------------------------------------
(* The responses the judge may give *)

RECURSIVE Join(_)
\* the records of an array, comma-separated
Join(recs) ==
    IF recs = <<>> THEN <<>>
    ELSE IF Len(recs) = 1 THEN <<Obj(recs[1])>>
    ELSE <<Obj(recs[1]), Comma>> \o Join(Tail(recs))

\* the text of a well-formed array of records
ArrayText(recs) == <<LB>> \o Join(recs) \o <<RB>>

RecsExample == << SkipRec(4), Rec(8, "t1", <<"Regulatory", "Market">>, "") >>

RecsLow ==
    << Rec(4, "low", <<"Risk">>, ""),
       Rec(6, "mid", <<"Regulatory", "Jobs">>, "sell"),
       SkipRec(9),
       Untagged(9, "nt") >>

RecsBig ==
    << Rec(9, "b1", <<"Regulatory">>, ""), Rec(7, "b2", <<"Market">>, ""),
       Rec(9, "b3", <<"Jobs">>, "pitch"), Rec(5, "b4", <<"Technology">>, ""),
       Rec(7, "b5", <<"Risk">>, ""),      Rec(9, "b6", <<"Market", "Jobs">>, ""),
       Rec(8, "b7", <<"Regulatory", "Jobs">>, ""), Rec(7, "b8", <<"Technology">>, "") >>

Prose == <<Word, Word>>
BracketProse == <<Word, LB, Word, RB, Word>>

JudgeOutcomes ==
    { Threw,
      Reply(<<>>, ArrayText(RecsExample), <<>>),
      Reply(BracketProse, ArrayText(RecsExample), <<>>),
      Reply(Prose, <<>>, <<>>),
      Reply(<<>>, ArrayText(RecsLow), <<>>),
      Reply(<<Word>>, ArrayText(RecsBig), Prose) }

-----------------------------------------------------------------------------
(* Ranking *)

Front(s) == SubSeq(s, 1, Len(s) - 1)

\* x placed in front of every record whose score is not higher than its own
InsertByScoreUnstable(sorted, x) ==
    LET lower == {k \in 1..Len(sorted) : sorted[k].score <= x.score}
        p     == IF lower = {} THEN Len(sorted) + 1
                 ELSE CHOOSE k \in lower : \A m \in lower : k <= m
    IN  SubSeq(sorted, 1, p - 1) \o <<x>> \o SubSeq(sorted, p, Len(sorted))

\* x placed behind every record whose score is not lower than its own
InsertByScore(sorted, x) ==
    LET lower == {k \in 1..Len(sorted) : sorted[k].score < x.score}
        p     == IF lower = {} THEN Len(sorted) + 1
                 ELSE CHOOSE k \in lower : \A m \in lower : k <= m
    IN  SubSeq(sorted, 1, p - 1) \o <<x>> \o SubSeq(sorted, p, Len(sorted))

\* analyzed.sort((a, b) => b.score - a.score): Array.prototype.sort is stable
RECURSIVE SortByScore(_)
SortByScore(s) ==
    IF s = <<>> THEN <<>> ELSE InsertByScore(SortByScore(Front(s)), s[Len(s)])

RankNoSlice(v, list) == SortByScore(list)

\* analyzed.sort(...).slice(0, CONFIG.maxArticlesInBrief)
Rank(v, list) == Slice(SortByScore(list), CONFIG(v).maxArticlesInBrief)

-----------------------------------------------------------------------------
(* Rendering *)

HasTag(a, tag) == \E k \in 1..Len(a.tags) : a.tags[k] = tag

\* a.tags.includes and article.summary.map raise a TypeError on a missing field
RenderThrows(articles) ==
    \E k \in 1..Len(articles) : ~articles[k].hasTags \/ ~articles[k].hasSummary

NoHtml == [regulatory |-> <<>>, market |-> <<>>, jobs |-> <<>>,
           opportunities |-> <<>>, full |-> <<>>]

\* an article already listed under Regulatory is left out of the later tag sections
formatEmailBriefExclusive(v, articles) ==
    LET rest == SelectSeq(articles, LAMBDA a : ~HasTag(a, "Regulatory"))
    IN  [regulatory    |-> SelectSeq(articles, LAMBDA a : HasTag(a, "Regulatory")),
         market        |-> IF v = "dedup"
                           THEN SelectSeq(rest, LAMBDA a : HasTag(a, "Market"))
                           ELSE SelectSeq(rest,
                                          LAMBDA a : HasTag(a, "Market") \/ HasTag(a, "Jobs")),
         jobs          |-> IF v = "dedup"
                           THEN SelectSeq(rest, LAMBDA a : HasTag(a, "Jobs"))
                           ELSE <<>>,
         opportunities |-> SelectSeq(articles, LAMBDA a : a.opportunity # ""),
         full          |-> articles]

\* formatEmailBrief: the document as the lists its sections are rendered from
formatEmailBrief(v, articles) ==
    [regulatory    |-> SelectSeq(articles, LAMBDA a : HasTag(a, "Regulatory")),
     market        |-> IF v = "dedup"
                       THEN SelectSeq(articles, LAMBDA a : HasTag(a, "Market"))
                       ELSE SelectSeq(articles,
                                      LAMBDA a : HasTag(a, "Market") \/ HasTag(a, "Jobs")),
     jobs          |-> IF v = "dedup"
                       THEN SelectSeq(articles, LAMBDA a : HasTag(a, "Jobs"))
                       ELSE <<>>,
     opportunities |-> SelectSeq(articles, LAMBDA a : a.opportunity # ""),
     full          |-> articles]

-----------------------------------------------------------------------------
(* The trigger *)

\* `Bearer ${process.env.CRON_SECRET}`
ExpectedHeader(s) == "Bearer " \o (IF s = <<>> THEN "undefined" ELSE s[1])

\* the negation of: authHeader !== `Bearer ${process.env.CRON_SECRET}`
Authorized(h, s) == h = <<ExpectedHeader(s)>>

Secrets == {<<>>, <<"s3cret">>}

Headers == {<<>>, <<"Bearer s3cret">>, <<"Bearer wrong">>, <<"Bearer undefined">>,
            <<"s3cret">>}

-----------------------------------------------------------------------------
(* The steps of the two loops and the caller's checks *)

FeedStepAbort(v, res, now, cutoff, seen, all) ==
    IF res.ok
    THEN LET got == RecentItems(v, res.items, now, cutoff, seen)
         IN  [kept |-> got.kept, seen |-> got.seen, all |-> all \o got.kept]
    ELSE [kept |-> <<>>, seen |-> seen, all |-> <<>>]

\* try { parseURL; filter...; allArticles.push(...recentItems) } catch { log }
FeedStep(v, res, now, cutoff, seen, all) ==
    IF res.ok
    THEN LET got == RecentItems(v, res.items, now, cutoff, seen)
         IN  [kept |-> got.kept, seen |-> got.seen, all |-> all \o got.kept]
    ELSE [kept |-> <<>>, seen |-> seen, all |-> all]

BatchStepAbort(v, out, acc) ==
    IF out.threw \/ ~RegexMatch(ResponseText(out)).found
    THEN <<>>
    ELSE acc \o BatchRelevant(v, out)

\* try { create; match; parse; filter; analyzed.push(...relevant) } catch { log }
BatchStep(v, out, acc) == acc \o BatchRelevant(v, out)

BatchOffByOne(articles, k) ==
    SubSeq(articles, k + 1, Min(k + batchSize - 1, Len(articles)))

\* articles.slice(i, i + batchSize)
Batch(articles, k) == SubSeq(articles, k + 1, Min(k + batchSize, Len(articles)))

NeedsDelayAfterEveryBatch(k, n) == TRUE

\* if (i + batchSize < articles.length): a delay follows the batch that starts at i
NeedsDelay(k, n) == k + batchSize < n

NothingToReportNever(list) == FALSE

\* articles.length === 0 / analyzed.length === 0
NothingToReport(list) == Len(list) = 0

-----------------------------------------------------------------------------
(* State machine *)

Init ==
    /\ variant \in Variants
    /\ secret \in Secrets
    /\ authHeader \in Headers
    /\ response = "none"
    /\ counts = <<>>
    /\ outcome = "none"
    /\ pc = "request"
    /\ clock = StartTime
    /\ cutoffDate = 0
    /\ feedIdx = 0
    /\ feedResults = <<>>
    /\ contrib = <<>>
    /\ seenLinks = {}
    /\ allArticles = <<>>
    /\ i = 0
    /\ requests = <<>>
    /\ judgeLog = <<>>
    /\ batchOut = <<>>
    /\ analyzed = <<>>
    /\ digest = <<>>
    /\ delays = 0
    /\ emailHtml = NoHtml
    /\ mailSends = 0

RespondNothing(v, old, new) == old

\* what the awaited GET returns; the "dedup" POST has already answered 'started'
Respond(v, old, new) == IF v = "dedup" THEN old ELSE new

\* POST / GET up to the first await: the bearer check, then the start of the run
Trigger ==
    /\ pc = "request"
    /\ IF Authorized(authHeader, secret)
       THEN /\ pc' = "fetch"
            /\ cutoffDate' = CutoffOf(variant, clock)
            /\ response' = IF variant = "dedup" THEN "started" ELSE "none"
       ELSE /\ pc' = "done"
            /\ response' = "401"
            /\ UNCHANGED cutoffDate
    /\ UNCHANGED <<variant, secret, authHeader, counts, outcome, clock, feedIdx,
                   feedResults, contrib, seenLinks, allArticles, i, requests, judgeLog,
                   batchOut, analyzed, digest, delays, emailHtml, mailSends>>

\* one iteration of for (const feedUrl of RSS_FEEDS): try { parseURL ... } catch
FetchFeed ==
    /\ pc = "fetch"
    /\ feedIdx < NumFeeds(variant)
    /\ \E res \in FeedOutcomes(cutoffDate) :
         LET now == clock + 1
             got == FeedStep(variant, res, now, cutoffDate, seenLinks, allArticles)
         IN  /\ clock' = now
             /\ feedResults' = Append(feedResults, res)
             /\ contrib' = Append(contrib, got.kept)
             /\ seenLinks' = got.seen
             /\ allArticles' = got.all
    /\ feedIdx' = feedIdx + 1
    /\ UNCHANGED <<variant, secret, authHeader, response, counts, outcome, pc,
                   cutoffDate, i, requests, judgeLog, batchOut, analyzed, digest, delays,
                   emailHtml, mailSends>>

\* fetchRecentArticles returns; if (articles.length === 0) return ...
FetchDone ==
    /\ pc = "fetch"
    /\ feedIdx = NumFeeds(variant)
    /\ IF NothingToReport(allArticles)
       THEN /\ pc' = "done"
            /\ outcome' = "no_articles"
            /\ response' = Respond(variant, response, "no_articles")
            /\ counts' = Respond(variant, counts, <<0>>)
       ELSE /\ pc' = "analyze"
            /\ UNCHANGED <<outcome, response, counts>>
    /\ i' = 0
    /\ UNCHANGED <<variant, secret, authHeader, clock, cutoffDate, feedIdx, feedResults,
                   contrib, seenLinks, allArticles, requests, judgeLog, batchOut,
                   analyzed, digest, delays, emailHtml, mailSends>>

\* one iteration of the batch loop up to its delay: the judge call and its try block
JudgeBatch ==
    /\ pc = "analyze"
    /\ i < Len(allArticles)
    /\ requests' = Append(requests, [batch       |-> Batch(allArticles, i),
                                     issuedAt    |-> clock,
                                     completedAt |-> clock + 1])
    /\ \E out \in JudgeOutcomes :
         /\ judgeLog' = Append(judgeLog, out)
         /\ batchOut' = Append(batchOut, BatchRelevant(variant, out))
         /\ analyzed' = BatchStep(variant, out, analyzed)
    /\ clock' = clock + 1
    /\ IF NeedsDelay(i, Len(allArticles))
       THEN pc' = "delay" /\ i' = i
       ELSE pc' = "analyze" /\ i' = i + batchSize
    /\ UNCHANGED <<variant, secret, authHeader, response, counts, outcome, cutoffDate,
                   feedIdx, feedResults, contrib, seenLinks, allArticles, digest, delays,
                   emailHtml, mailSends>>

\* await new Promise(resolve => setTimeout(resolve, 1000)); then i += batchSize
Delay ==
    /\ pc = "delay"
    /\ clock' = clock + delayMs
    /\ delays' = delays + 1
    /\ i' = i + batchSize
    /\ pc' = "analyze"
    /\ UNCHANGED <<variant, secret, authHeader, response, counts, outcome, cutoffDate,
                   feedIdx, feedResults, contrib, seenLinks, allArticles, requests,
                   judgeLog, batchOut, analyzed, digest, emailHtml, mailSends>>

\* analyzeWithClaude returns the ranked list; if (analyzed.length === 0) return ...;
\* formatEmailBrief(analyzed), whose TypeError the caller's catch turns into a failure
RankAndRender ==
    /\ pc = "analyze"
    /\ i >= Len(allArticles)
    /\ LET ranked == Rank(variant, analyzed)
       IN  /\ digest' = ranked
           /\ IF NothingToReport(ranked)
              THEN /\ pc' = "done"
                   /\ outcome' = "no_relevant"
                   /\ response' = Respond(variant, response, "no_relevant")
                   /\ counts' = Respond(variant, counts, <<0>>)
                   /\ UNCHANGED emailHtml
              ELSE IF RenderThrows(ranked)
              THEN /\ pc' = "done"
                   /\ outcome' = "failed"
                   /\ response' = Respond(variant, response, "error500")
                   /\ UNCHANGED <<emailHtml, counts>>
              ELSE /\ pc' = "mail"
                   /\ emailHtml' = formatEmailBrief(variant, ranked)
                   /\ UNCHANGED <<outcome, response, counts>>
    /\ UNCHANGED <<variant, secret, authHeader, clock, cutoffDate, feedIdx, feedResults,
                   contrib, seenLinks, allArticles, i, requests, judgeLog, batchOut,
                   analyzed, delays, mailSends>>

\* await resend.emails.send(...): delivered, or a throw that the catch reports
SendMail ==
    /\ pc = "mail"
    /\ mailSends' = mailSends + 1
    /\ clock' = clock + 1
    /\ pc' = "done"
    /\ \E delivered \in BOOLEAN :
         IF delivered
         THEN /\ outcome' = "sent"
              /\ response' = Respond(variant, response, "success")
              /\ counts' = Respond(variant, counts, <<Len(allArticles), Len(digest)>>)
         ELSE /\ outcome' = "failed"
              /\ response' = Respond(variant, response, "error500")
              /\ UNCHANGED counts
    /\ UNCHANGED <<variant, secret, authHeader, cutoffDate, feedIdx, feedResults,
                   contrib, seenLinks, allArticles, i, requests, judgeLog, batchOut,
                   analyzed, digest, delays, emailHtml>>

Next ==
    \/ Trigger
    \/ FetchFeed
    \/ FetchDone
    \/ JudgeBatch
    \/ Delay
    \/ RankAndRender
    \/ SendMail

Spec == Init /\ [][Next]_vars

-----------------------------------------------------------------------------
(* Properties of the fetch stage *)

FetchFinished == pc \in {"analyze", "delay", "mail", "done"} /\ feedIdx = NumFeeds(variant)

\* while fetchRecentArticles builds its list and when it has returned it, up to the
\* first judge request; the list and what the feeds gave do not change afterwards
Fetching == pc \in {"fetch", "analyze", "done"} /\ judgeLog = <<>>

\* an Article without its timestamp (an undated item's timestamp is its fetch time)
Face(a) == [title |-> a.title, link |-> a.link, content |-> a.content]

Faces(list) == [k \in 1..Len(list) |-> Face(list[k])]

\* the Articles of every feed fetched so far after window, cap and normalisation,
\* in feed-iteration order and then in item order
Candidates ==
    Flatten([k \in 1..Len(feedResults) |->
                Faces(WindowCapMap(variant, feedResults[k].items, clock, cutoffDate))])

\* the elements of s that no earlier element shares its link with, in order
RECURSIVE FirstOccurrences(_, _)
FirstOccurrences(s, k) ==
    IF k > Len(s) THEN <<>>
    ELSE (IF \A j \in 1..(k - 1) : s[j].link # s[k].link THEN <<s[k]>> ELSE <<>>)
         \o FirstOccurrences(s, k + 1)

NoTwoWithSameLink(list) ==
    \A j, k \in 1..Len(list) : j # k => list[j].link # list[k].link

\* C1 as stated: in every copy of the pipeline the list fetchRecentArticles builds
\* holds no two Articles with the same link.
C1_NoDuplicateLinksAnyCopy == NoTwoWithSameLink(allArticles)

\* C1 amended: in the copy that keeps seenLinks, the list holds no two Articles with
\* the same link (the empty link included), and it is exactly the first occurrence
\* of every link, in feed-iteration order and then item order.
C1_DedupKeepsFirstOccurrence ==
    variant = "dedup" =>
        /\ NoTwoWithSameLink(allArticles)
        /\ seenLinks = {allArticles[k].link : k \in 1..Len(allArticles)}
        /\ Fetching => Faces(allArticles) = FirstOccurrences(Candidates, 1)

\* a later copy of a link was dropped, across feeds, and a link-less Article is kept
C1_Witness ==
    /\ variant = "dedup"
    /\ FetchFinished
    /\ Len(allArticles) < Len(Candidates)
    /\ \E k \in 1..Len(allArticles) : allArticles[k].link = ""
    /\ \E j, k \in 1..Len(contrib) : j < k /\ contrib[j] # <<>> /\ contrib[k] # <<>>

LinksOf(list) == {list[k].link : k \in 1..Len(list)}

\* C2: a feed whose fetch fails contributes nothing, every feed is still fetched,
\* the list is the concatenation of what the feeds that answered contributed (each,
\* when it is fetched, as its own items and the links seen before it decide), and the
\* run does not end in a failure on account of the feed: it goes on to the judge
\* whenever an Article was fetched, and only the renderer or the mail step can make
\* it fail.
C2_FeedFailureIsolated ==
    /\ Len(feedResults) = feedIdx
    /\ Len(contrib) = feedIdx
    /\ allArticles = Flatten(contrib)
    /\ \A k \in 1..Len(feedResults) : ~feedResults[k].ok => contrib[k] = <<>>
    /\ Fetching =>
          \A k \in 1..Len(feedResults) :
              feedResults[k].ok =>
                  Faces(contrib[k]) =
                    Faces(RecentItems(variant, feedResults[k].items, clock, cutoffDate,
                                      LinksOf(Flatten(SubSeq(contrib, 1, k - 1)))).kept)
    /\ pc \notin {"request", "fetch"} /\ response # "401" => feedIdx = NumFeeds(variant)
    /\ FetchFinished /\ allArticles # <<>> =>
          /\ outcome # "no_articles"
          /\ pc = "done" => judgeLog # <<>>
          /\ outcome = "failed" => RenderThrows(digest) \/ mailSends = 1

\* feed 2 failed, feeds 1 and 3 contributed, and the brief was sent
C2_Witness ==
    /\ pc = "done" /\ outcome = "sent"
    /\ Len(feedResults) >= 3
    /\ feedResults[1].ok /\ ~feedResults[2].ok /\ feedResults[3].ok
    /\ contrib[1] # <<>> /\ contrib[3] # <<>>
    /\ allArticles = Flatten(<<contrib[1], contrib[3]>> \o SubSeq(contrib, 4, Len(contrib)))

-----------------------------------------------------------------------------
(* Properties of the analyzer *)

\* the judge call threw, or the response holds no array, or the array text does not parse
BatchFailed(out) ==
    \/ out.threw
    \/ ~RegexMatch(ResponseText(out)).found
    \/ ~JSONparse(RegexMatch(ResponseText(out)).text).ok

\* the objects of a token sequence, in order
ObjRecs(tokens) ==
    LET objs == SelectSeq(tokens, LAMBDA t : t.t = "obj")
    IN  [k \in 1..Len(objs) |-> objs[k].r]

\* the records of a response's array that are not marked skip and reach the minimum
Survivors(v, out) ==
    SelectSeq(ObjRecs(out.body),
              LAMBDA r : r.skip = FALSE /\ ~(r.score < CONFIG(v).minRelevanceScore))

BatchCount(n) == (n + batchSize - 1) \div batchSize

AnalysisFinished == pc \in {"mail", "done"} /\ outcome # "no_articles" /\ response # "401"

\* C3: a batch whose judge call throws, whose response holds no array or whose array
\* text fails to parse adds nothing; the result is the concatenation of what the
\* other batches added, each exactly the surviving records of its own response; and
\* every batch of the input is sent, whatever became of the earlier ones.
C3_BatchFailureIsolated ==
    /\ Len(batchOut) = Len(judgeLog)
    /\ analyzed = Flatten(batchOut)
    /\ \A k \in 1..Len(judgeLog) :
          batchOut[k] = IF BatchFailed(judgeLog[k]) THEN <<>>
                        ELSE Survivors(variant, judgeLog[k])
    /\ AnalysisFinished => Len(judgeLog) = BatchCount(Len(allArticles))
    /\ pc \in {"analyze", "delay"} /\ i < Len(allArticles) =>
          Len(judgeLog) = (i \div batchSize) + (IF pc = "delay" THEN 1 ELSE 0)

\* three batches, the second failed, the first and the third are the whole result
C3_Witness ==
    /\ AnalysisFinished
    /\ Len(judgeLog) = 3
    /\ judgeLog[2].threw
    /\ batchOut[1] # <<>> /\ batchOut[3] # <<>>
    /\ analyzed = batchOut[1] \o batchOut[3]

AllOf(list, P(_)) == \A k \in 1..Len(list) : P(list[k])

Passes(r) == r.skip = FALSE /\ r.score >= CONFIG(variant).minRelevanceScore

\* C4: no record marked skip and no record below minRelevanceScore is in what a
\* batch adds, in the analyzer's result, in the digest or in the rendered brief; a
\* response of one {score 4, skip} and one full record of score 8 adds exactly the
\* score-8 record.
C4_SkipAndLowScoreAbsent ==
    /\ AllOf(analyzed, Passes)
    /\ AllOf(digest, Passes)
    /\ AllOf(emailHtml.full, Passes)
    /\ \A k \in 1..Len(judgeLog) :
          /\ AllOf(batchOut[k], Passes)
          /\ ~BatchFailed(judgeLog[k]) =>
                \A j \in 1..Len(ObjRecs(judgeLog[k].body)) :
                    LET r == ObjRecs(judgeLog[k].body)[j]
                    IN  ~Passes(r) => \A m \in 1..Len(batchOut[k]) : batchOut[k][m] # r
          /\ judgeLog[k] = Reply(<<>>, ArrayText(RecsExample), <<>>) =>
                batchOut[k] = <<RecsExample[2]>>

\* with minimum 7: a response held a record of score 6 not marked skip, a record of
\* score 4 not marked skip and a record of score 9 marked skip, none of them is in
\* the digest, and the digest is not empty
C4_Witness ==
    /\ variant = "plain"
    /\ pc = "done"
    /\ \E k \in 1..Len(judgeLog) : judgeLog[k] = Reply(<<>>, ArrayText(RecsLow), <<>>)
    /\ \E k \in 1..Len(judgeLog) : judgeLog[k] = Reply(<<>>, ArrayText(RecsExample), <<>>)
    /\ digest # <<>>

-----------------------------------------------------------------------------
(* Properties of the ranking *)

Ranked == pc \in {"mail", "done"} /\ outcome # "no_articles" /\ response # "401"

Count(list, P(_)) == Cardinality({k \in 1..Len(list) : P(list[k])})

\* C5: the digest holds min(number of surviving records, maxArticlesInBrief) records,
\* each of them a surviving record (no more copies of it than survived), and every
\* surviving record that scores higher than some record of the digest is in the
\* digest too.
C5_DigestIsTopOfRanking ==
    Ranked =>
        /\ Len(digest) = Min(Len(analyzed), CONFIG(variant).maxArticlesInBrief)
        /\ Len(digest) <= CONFIG(variant).maxArticlesInBrief
        /\ \A k \in 1..Len(digest) :
              /\ Count(digest, LAMBDA r : r = digest[k])
                    <= Count(analyzed, LAMBDA r : r = digest[k])
              /\ Count(digest, LAMBDA r : r.score > digest[k].score)
                    = Count(analyzed, LAMBDA r : r.score > digest[k].score)

\* more records survived than the digest may hold, and some were cut
C5_Witness ==
    /\ Ranked
    /\ Len(analyzed) > CONFIG(variant).maxArticlesInBrief
    /\ Len(digest) = CONFIG(variant).maxArticlesInBrief
    /\ \E k \in 1..Len(analyzed) : \E j \in 1..Len(digest) :
          analyzed[k].score < digest[j].score

IsPrefix(s, t) == Len(s) <= Len(t) /\ s = SubSeq(t, 1, Len(s))

\* C6: the digest is in non-increasing order of score, and the records of one score
\* stand in it in the order in which the batches emitted them.
C6_StableDescending ==
    Ranked =>
        /\ \A k \in 1..(Len(digest) - 1) : digest[k].score >= digest[k + 1].score
        /\ \A sc \in {analyzed[k].score : k \in 1..Len(analyzed)} :
              IsPrefix(SelectSeq(digest, LAMBDA r : r.score = sc),
                       SelectSeq(analyzed, LAMBDA r : r.score = sc))

\* records were emitted out of score order, and two different records of one score
\* are in the digest
C6_Witness ==
    /\ Ranked
    /\ \E j, k \in 1..Len(analyzed) : j < k /\ analyzed[j].score < analyzed[k].score
    /\ \E j, k \in 1..Len(digest) :
          j < k /\ digest[j].score = digest[k].score /\ digest[j] # digest[k]

\* C7 as stated: a response that is one well-formed array of records with free text
\* before and after it adds exactly the surviving records of that array.
C7_ProseAroundArrayParsed ==
    \A k \in 1..Len(judgeLog) :
        ~judgeLog[k].threw /\ judgeLog[k].body # <<>> =>
            batchOut[k] = Survivors(variant, judgeLog[k])

-----------------------------------------------------------------------------
(* Properties of the window filter *)

\* the positions of the items of a feed that are undated or dated after the cutoff
AfterCutoff(items) ==
    {j \in 1..Len(items) : items[j].pubDate = <<>> \/ items[j].pubDate[1] > cutoffDate}

\* the item at position j is not beyond the per-feed cap among them
WithinCap(items, j) ==
    Cardinality({m \in AfterCutoff(items) : m <= j}) <= CONFIG(variant).maxArticlesPerFeed

\* the list holds the Article of the item: its link, its title if it has one, its
\* date if it has one and else a time not before the start of the run
Carries(list, item) ==
    \E k \in 1..Len(list) :
        /\ list[k].link = item.link
        /\ item.title # <<>> => list[k].title = item.title
        /\ IF item.pubDate = <<>> THEN list[k].pubDate >= StartTime
                                  ELSE list[k].pubDate = item.pubDate[1]

\* C8: no Article of the list is dated at or before the cutoff, an item dated at or
\* before it contributes no Article, an undated item is dated at its fetch, after the
\* start of the run; and the window filter drops no other item: an item dated after
\* the cutoff or undated, within the per-feed cap, is contributed by its feed, unless
\* the later filter of the copy (a link already seen, no keyword) drops it.
C8_WindowFilter ==
    /\ \A k \in 1..Len(allArticles) : allArticles[k].pubDate > cutoffDate
    /\ Fetching =>
          \A f \in 1..Len(feedResults) :
              LET items == feedResults[f].items
              IN  \A j \in 1..Len(items) :
                      IF j \in AfterCutoff(items)
                      THEN WithinCap(items, j) =>
                              CASE variant = "plain" -> Carries(contrib[f], items[j])
                                [] variant = "keyword" ->
                                      passesKeywordFilter(Normalize(items[j], clock))
                                          => Carries(contrib[f], items[j])
                                [] variant = "dedup" ->
                                      items[j].link \in LinksOf(allArticles)
                      ELSE ~Carries(contrib[f], items[j])

\* a feed held an item dated exactly at the cutoff, which it did not contribute, and
\* an undated item, which it did
C8_Witness ==
    /\ FetchFinished
    /\ \E f \in 1..Len(feedResults) :
          /\ feedResults[f].items = DocMix(cutoffDate)
          /\ ~Carries(contrib[f], DocMix(cutoffDate)[2])
          /\ Carries(contrib[f], DocMix(cutoffDate)[3])
          /\ \E k \in 1..Len(contrib[f]) :
                contrib[f][k].link = "" /\ contrib[f][k].pubDate > StartTime

-----------------------------------------------------------------------------
(* Properties of the run *)

\* C9: with no Article after fetching and filtering no judge request is issued, no
\* mail is sent and the run ends 'no articles' without an error; with an empty
\* analyzer result no mail is sent and the run ends 'no relevant articles' without
\* an error; the mail is sent at most once, and only with a non-empty digest.
C9_NothingToReport ==
    /\ mailSends <= 1
    /\ mailSends = 1 => digest # <<>> /\ emailHtml.full = digest
    /\ allArticles = <<>> => judgeLog = <<>> /\ mailSends = 0
    /\ pc = "done" /\ response # "401" /\ allArticles = <<>> =>
          /\ outcome = "no_articles"
          /\ response = (IF variant = "dedup" THEN "started" ELSE "no_articles")
    /\ pc = "done" /\ allArticles # <<>> /\ digest = <<>> =>
          /\ outcome = "no_relevant"
          /\ mailSends = 0
          /\ response = (IF variant = "dedup" THEN "started" ELSE "no_relevant")
    /\ outcome = "no_articles" => allArticles = <<>>
    /\ outcome = "no_relevant" => analyzed = <<>>

\* the feeds answered with items, none survived the filters, and the run ended
\* 'no articles' with no judge request and no mail
C9_Witness ==
    /\ pc = "done" /\ outcome = "no_articles"
    /\ \A f \in 1..Len(feedResults) : feedResults[f].ok /\ feedResults[f].items # <<>>
    /\ judgeLog = <<>> /\ mailSends = 0

\* the bearer credential of the request is the configured trigger secret
CredentialMatches ==
    secret # <<>> /\ authHeader = <<"Bearer " \o secret[1]>>

\* C10 as stated: a request whose credential does not match the configured secret
\* (wrong, missing, or no secret configured) is answered 401 and starts no feed
\* fetch, no judge request and no mail send.
C10_MismatchRejected ==
    ~CredentialMatches /\ pc # "request" =>
        /\ response = "401"
        /\ feedResults = <<>> /\ judgeLog = <<>> /\ mailSends = 0

-----------------------------------------------------------------------------
(* Properties of the returned summary *)

\* the run has ended after a trigger that passed the bearer check
RunEnded == pc = "done" /\ response # "401"

\* the response tells how the run ended, with the counts of its body
ReflectsOutcome ==
    /\ outcome = "sent" =>
          response = "success" /\ counts = <<Len(allArticles), Len(digest)>>
    /\ outcome = "no_articles" => response = "no_articles" /\ counts = <<0>>
    /\ outcome = "no_relevant" => response = "no_relevant" /\ counts = <<0>>
    /\ outcome = "failed" => response = "error500"
    /\ outcome # "none"

\* C11 as stated: for every authorized trigger, in every copy of the pipeline, the
\* caller receives an outcome that tells how the run ended (success with counts, no
\* items, or failure), a failing mail send included, and the mail is not sent again.
C11_CallerLearnsHowRunEnded ==
    /\ RunEnded => ReflectsOutcome
    /\ mailSends <= 1

\* C11 amended: the caller of an awaited handler (the "keyword" and "plain" copies)
\* receives nothing before the run ends and then the outcome that tells how it ended:
\* success with the counts of fetched and selected items, no items with count 0, or a
\* failure when the renderer or the mail send threw; the caller of the
\* fire-and-forget POST (the "dedup" copy) receives 'started' before the run and
\* nothing more, however the run ends; in every copy a run that failed has ended and
\* the mail send is attempted at most once.
C11_AwaitedCallerLearnsHowRunEnded ==
    /\ variant # "dedup" =>
          /\ RunEnded => ReflectsOutcome
          /\ pc # "done" => response = "none" /\ counts = <<>>
    /\ variant = "dedup" /\ pc # "request" /\ response # "401" =>
          response = "started" /\ counts = <<>>
    /\ outcome = "failed" => pc = "done"
    /\ mailSends <= 1

\* an awaited run whose mail send threw: one send, and the caller got the failure
C11_Witness ==
    /\ variant = "plain"
    /\ pc = "done" /\ outcome = "failed"
    /\ mailSends = 1 /\ ~RenderThrows(digest)
    /\ response = "error500"

-----------------------------------------------------------------------------
(* Properties of the renderer *)

\* formatEmailBrief has returned its document
Rendered == pc = "mail" \/ mailSends = 1

TagSet(r) == {r.tags[k] : k \in 1..Len(r.tags)}

Listed(section, r) == \E k \in 1..Len(section) : section[k] = r

\* the section lists its articles in ranked order, each as often as the digest has it
InRankedOrder(section) == section = SelectSeq(digest, LAMBDA r : Listed(section, r))

\* C12: an article of the digest is listed under Regulatory iff its tags contain
\* Regulatory, under Market / Jobs iff its tags contain Market or Jobs (the "dedup"
\* copy renders these as a Market and a Jobs section, each by its own tag), under
\* Opportunities iff it has an opportunity, whatever other section lists it, and once
\* in the full list; every section is in ranked order.
C12_SectionsByInclusion ==
    Rendered =>
        /\ emailHtml.full = digest
        /\ InRankedOrder(emailHtml.regulatory)
        /\ InRankedOrder(emailHtml.market)
        /\ InRankedOrder(emailHtml.jobs)
        /\ InRankedOrder(emailHtml.opportunities)
        /\ variant # "dedup" => emailHtml.jobs = <<>>
        /\ \A k \in 1..Len(digest) :
              LET r == digest[k]
              IN  /\ Listed(emailHtml.regulatory, r) <=> "Regulatory" \in TagSet(r)
                  /\ Listed(emailHtml.market, r) \/ Listed(emailHtml.jobs, r)
                        <=> TagSet(r) \cap {"Market", "Jobs"} # {}
                  /\ variant = "dedup" =>
                        /\ Listed(emailHtml.market, r) <=> "Market" \in TagSet(r)
                        /\ Listed(emailHtml.jobs, r) <=> "Jobs" \in TagSet(r)
                  /\ Listed(emailHtml.opportunities, r) <=> r.opportunity # ""

\* the brief holds an article tagged Regulatory and Market and one tagged Regulatory
\* and Jobs, each in both of its sections, and an article in no tag section
C12_Witness ==
    /\ Rendered
    /\ \E r \in {digest[k] : k \in 1..Len(digest)} :
          /\ TagSet(r) = {"Regulatory", "Market"}
          /\ Listed(emailHtml.regulatory, r) /\ Listed(emailHtml.market, r)
    /\ \E r \in {digest[k] : k \in 1..Len(digest)} :
          /\ TagSet(r) = {"Regulatory", "Jobs"}
          /\ Listed(emailHtml.regulatory, r)
          /\ Listed(emailHtml.market, r) \/ Listed(emailHtml.jobs, r)
    /\ \E r \in {digest[k] : k \in 1..Len(digest)} :
          /\ TagSet(r) = {"Technology"}
          /\ ~Listed(emailHtml.regulatory, r) /\ ~Listed(emailHtml.market, r)

-----------------------------------------------------------------------------
(* Properties of the keyword pre-filter *)

\* some keyword of KEYWORDS occurs in the text
HasKeyword(text) ==
    \E k \in 1..Len(KEYWORDS) : \E p \in 1..Len(text) :
        /\ p + Len(KEYWORDS[k]) - 1 <= Len(text)
        /\ \A q \in 1..Len(KEYWORDS[k]) : text[p + q - 1] = KEYWORDS[k][q]

\* title directly followed by content, lower-cased
Concatenated(a) == toLowerCase(a.title \o a.content)

\* title, one blank, content, lower-cased
JoinedBySpace(a) == toLowerCase(a.title \o <<" ">> \o a.content)

\* the Articles that the judge requests carried, in order
Judged == Flatten([k \in 1..Len(requests) |-> requests[k].batch])

\* C13 as stated: in the copy with the keyword pre-filter an Article passes iff the
\* lower-cased concatenation of its title and its content contains a keyword, and
\* only Articles that pass reach fetchRecentArticles' list and the judge requests.
C13_ConcatenationDecides ==
    variant = "keyword" =>
        /\ Fetching =>
              Faces(allArticles)
                = SelectSeq(Candidates, LAMBDA a : HasKeyword(Concatenated(a)))
        /\ \A k \in 1..Len(Judged) : HasKeyword(Concatenated(Judged[k]))

\* C13 amended: in the copy with the keyword pre-filter an Article passes iff the
\* lower-cased text made of its title, one blank and its content contains a keyword
\* of KEYWORDS as a substring; the list of fetchRecentArticles is exactly the
\* windowed and capped Articles that pass, and no Article that matches none of the
\* keywords is in a judge request.
C13_KeywordFilterDecides ==
    variant = "keyword" =>
        /\ Fetching =>
              Faces(allArticles)
                = SelectSeq(Candidates, LAMBDA a : HasKeyword(JoinedBySpace(a)))
        /\ \A k \in 1..Len(Judged) : HasKeyword(JoinedBySpace(Judged[k]))
        /\ \A k \in 1..Len(allArticles) : passesKeywordFilter(allArticles[k])

\* an Article matching in upper case and one matching only across the blank between
\* title and content were sent to the judge; one with no keyword, and one whose title
\* and content would make a keyword without the blank, were fetched and dropped
C13_Witness ==
    /\ variant = "keyword"
    /\ requests # <<>>
    /\ \E k \in 1..Len(Judged) : Judged[k].title = KW
    /\ \E k \in 1..Len(Judged) :
          /\ HasKeyword(JoinedBySpace(Judged[k]))
          /\ ~HasKeyword(toLowerCase(Judged[k].title))
          /\ ~HasKeyword(toLowerCase(Judged[k].content))
    /\ \E f \in 1..Len(feedResults) :
          /\ feedResults[f].items = DocDup(cutoffDate)
          /\ contrib[f] = <<>>

-----------------------------------------------------------------------------
(* Properties of the renderer's failure behaviour *)

\* C14 as stated: for every list of records that leaves the analyzer, a record with
\* no tags field included, formatEmailBrief returns its document without raising:
\* the record is in the full list, in none of the tag sections, and the run goes on
\* to the mail step.
C14_RenderNeverRaises ==
    pc \in {"mail", "done"} /\ digest # <<>> =>
        /\ Rendered
        /\ emailHtml.full = digest
        /\ \A k \in 1..Len(digest) :
              ~digest[k].hasTags =>
                  /\ ~Listed(emailHtml.regulatory, digest[k])
                  /\ ~Listed(emailHtml.market, digest[k])
                  /\ ~Listed(emailHtml.jobs, digest[k])

-----------------------------------------------------------------------------
(* Properties of the per-feed cap *)

LinkSeq(list) == [k \in 1..Len(list) |-> list[k].link]

\* s is t with some of its elements left out
RECURSIVE IsSubsequence(_, _)
IsSubsequence(s, t) ==
    IF s = <<>> THEN TRUE
    ELSE IF t = <<>> THEN FALSE
    ELSE IF Head(s) = Head(t) THEN IsSubsequence(Tail(s), Tail(t))
    ELSE IsSubsequence(s, Tail(t))

\* the items of a feed that are undated or dated after the cutoff, in feed order
Windowed(items) ==
    SelectSeq(items, LAMBDA it : it.pubDate = <<>> \/ it.pubDate[1] > cutoffDate)

\* C15 as stated: what a feed contributes is a subset, in feed order, of the first
\* maxArticlesPerFeed items of the parsed feed: never more than maxArticlesPerFeed
\* Articles and never an item from beyond position maxArticlesPerFeed.
C15_CapPrecedesFiltering ==
    Fetching =>
        \A f \in 1..Len(feedResults) :
            /\ Len(contrib[f]) <= CONFIG(variant).maxArticlesPerFeed
            /\ IsSubsequence(LinkSeq(contrib[f]),
                             LinkSeq(Slice(feedResults[f].items,
                                           CONFIG(variant).maxArticlesPerFeed)))

\* C15 amended: what a feed contributes is a subset, in feed order, of the first
\* maxArticlesPerFeed of its items that pass the window filter (all of them in the
\* copy with no later filter): never more than maxArticlesPerFeed Articles, and
\* never an item that more than maxArticlesPerFeed - 1 windowed items precede.
C15_CapFollowsWindow ==
    Fetching =>
        \A f \in 1..Len(feedResults) :
            LET firstRecent == Slice(Windowed(feedResults[f].items),
                                     CONFIG(variant).maxArticlesPerFeed)
            IN  /\ Len(contrib[f]) <= CONFIG(variant).maxArticlesPerFeed
                /\ IsSubsequence(LinkSeq(contrib[f]), LinkSeq(firstRecent))
                /\ variant = "plain" /\ feedResults[f].ok =>
                      LinkSeq(contrib[f]) = LinkSeq(firstRecent)

\* a feed with an old item in front of six fresh ones contributed as many Articles
\* as the cap allows, the last of them from the item one position beyond the cap,
\* and did not contribute the fresh item after it
C15_Witness ==
    /\ FetchFinished
    /\ \E f \in 1..Len(feedResults) :
          LET items == feedResults[f].items
              cap   == CONFIG(variant).maxArticlesPerFeed
          IN  /\ items = DocLong(cutoffDate)
              /\ Len(contrib[f]) = cap
              /\ contrib[f][cap].link = items[cap + 1].link
              /\ \A k \in 1..cap : contrib[f][k].link # items[cap + 2].link

-----------------------------------------------------------------------------
(* Properties of the batching *)

\* C16: request k (counted from 0) carries the Articles at positions 5k up to
\* min(5k + 5, n) - 1 of the input, in input order; no request is empty and only the
\* last may carry fewer than 5; when the analyzer has returned, ceil(n / 5) requests
\* were issued and together they carry every Article of the input exactly once.
C16_BatchesPartitionInput ==
    LET n == Len(allArticles)
    IN  /\ Len(judgeLog) = Len(requests)
        /\ \A k \in 0..(Len(requests) - 1) :
              /\ requests[k + 1].batch =
                    [j \in 1..(Min(5 * k + 5, n) - 5 * k) |-> allArticles[5 * k + j]]
              /\ Len(requests[k + 1].batch) >= 1
              /\ k + 1 < Len(requests) => Len(requests[k + 1].batch) = 5
        /\ AnalysisFinished =>
              /\ 5 * (Len(requests) - 1) < n /\ n <= 5 * Len(requests)
              /\ Judged = allArticles

\* an input whose length is no multiple of 5 went out in three requests, the last
\* one shorter than the others
C16_Witness ==
    /\ AnalysisFinished
    /\ Len(requests) = 3
    /\ Len(requests[1].batch) = 5 /\ Len(requests[2].batch) = 5
    /\ Len(requests[3].batch) \in 1..4
    /\ Len(allArticles) = 10 + Len(requests[3].batch)

\* C17: a request is issued only when the one before it has completed and one delay
\* of 1000 ms has passed since; one delay, no more, lies between two consecutive
\* requests, whether the earlier batch succeeded or failed; and no delay follows the
\* last batch: the analyzer returns at the time its last request completed.
C17_OneDelayBetweenRequests ==
    /\ \A k \in 1..Len(requests) : requests[k].issuedAt < requests[k].completedAt
    /\ \A k \in 1..(Len(requests) - 1) :
          requests[k + 1].issuedAt = requests[k].completedAt + 1000
    /\ pc = "delay" =>
          /\ delays = Len(requests) - 1
          /\ 5 * Len(requests) < Len(allArticles)
          /\ clock = requests[Len(requests)].completedAt
    /\ pc = "analyze" /\ requests # <<>> =>
          IF 5 * Len(requests) < Len(allArticles)
          THEN /\ delays = Len(requests)
               /\ clock = requests[Len(requests)].completedAt + 1000
          ELSE /\ delays = Len(requests) - 1
               /\ clock = requests[Len(requests)].completedAt
    /\ pc = "mail" => clock = requests[Len(requests)].completedAt
    /\ AnalysisFinished => delays = Len(requests) - 1

\* three requests, the first of which threw and the second of which gave no array,
\* with two delays between them, and the analyzer has returned
C17_Witness ==
    /\ pc = "mail"
    /\ Len(requests) = 3
    /\ judgeLog[1].threw
    /\ ~judgeLog[2].threw /\ BatchFailed(judgeLog[2])
    /\ delays = 2
    /\ requests[3].issuedAt = requests[1].issuedAt + 2002

====
